---- MODULE Spec2Model ----
(***************************************************************************)
(* ingest.py: the crawl driver.  main() reads the environment, loads the   *)
(* configuration document, overlays the environment identifiers, resolves  *)
(* the crawler plugin by naming convention (instantiate_crawler),          *)
(* optionally resets the corpus (reset_corpus / get_jwt_token) and calls   *)
(* crawl().                                                                *)
(*                                                                         *)
(* A Python str is a sequence of one-character strings; Python's None is   *)
(* the value None below.  Every external collaborator (the environment,    *)
(* the config document, the crawlers package, the OAuth2 and HTTP          *)
(* endpoints, the crawler's own constructor and crawl()) answers           *)
(* nondeterministically at the line that consults it.                      *)
(***************************************************************************)
EXTENDS Integers, Sequences, FiniteSets

VARIABLES
    pc,                 \* position of the single thread within main()
    runs,               \* calls of main() made so far in this process
    sys_path,           \* sys.path, the process-wide module search path
    calls,              \* calls of instantiate_crawler made in this process
    env,                \* os.environ as read so far by this run
    document,           \* what OmegaConf.load returned, before the overlay
    cfg,                \* the DictConfig of this run
    class_name,         \* instantiate_crawler's class_name argument
    module_name,        \* the module name handed to importlib.import_module
    class_,             \* what getattr(module, class_name) returned
    crawler,            \* the crawler instance: its constructor arguments
    reset_corpus_flag,  \* main()'s local switch
    token,              \* reset_corpus holds a bearer token
    response,           \* status code of the reset POST, 0 before it
    events,             \* what this run did, in order: log lines and calls
    exc                 \* the exception that escaped main(), "" if none

vars == <<pc, runs, sys_path, calls, env, document, cfg, class_name, module_name,
          class_, crawler, reset_corpus_flag, token, response, events, exc>>

(***************************************************************************)
(* Bounds of the model.                                                    *)
(***************************************************************************)
MaxRuns  == 2    \* calls of main() in one process
MaxIdLen == 2    \* length of the VECTARA_CORPUS_ID string
MaxPad   == 1    \* letters around the word "crawler" in a crawler type

(***************************************************************************)
(* Strings.                                                                *)
(***************************************************************************)
None == <<"None">>

Str_crawlers  == <<"c","r","a","w","l","e","r","s">>
Str_Crawler   == <<"C","r","a","w","l","e","r">>
Str__crawler  == <<"_","c","r","a","w","l","e","r">>
Str_dot       == <<".">>
Str_app       == <<"a","p","p">>
Str_default_endpoint ==
    <<"a","p","i",".","v","e","c","t","a","r","a",".","i","o">>

\* str.lower() and str.upper() on one character of the alphabet in use
LowerChar(ch) ==
    CASE ch = "C" -> "c" [] ch = "R" -> "r" [] ch = "A" -> "a"
      [] ch = "W" -> "w" [] ch = "L" -> "l" [] ch = "E" -> "e"
      [] ch = "B" -> "b" [] OTHER -> ch

UpperChar(ch) ==
    CASE ch = "c" -> "C" [] ch = "r" -> "R" [] ch = "a" -> "A"
      [] ch = "w" -> "W" [] ch = "l" -> "L" [] ch = "e" -> "E"
      [] ch = "b" -> "B" [] OTHER -> ch

\* str.lower()
Lower(s) == [i \in 1..Len(s) |-> LowerChar(s[i])]

\* str.capitalize(): first character upper-cased, the rest lower-cased
Capitalize(s) ==
    [i \in 1..Len(s) |-> IF i = 1 THEN UpperChar(s[i]) ELSE LowerChar(s[i])]

\* the positions at which sep occurs in s
Occurrences(s, sep) ==
    {i \in 1..(Len(s) - Len(sep) + 1) : SubSeq(s, i, i + Len(sep) - 1) = sep}

\* s.split(sep)[0]: s up to the first occurrence of sep, all of s if none
SplitFirst(s, sep) ==
    IF Occurrences(s, sep) = {} THEN s
    ELSE LET first == CHOOSE i \in Occurrences(s, sep) :
                          \A j \in Occurrences(s, sep) : i <= j
         IN  SubSeq(s, 1, first - 1)

\* int(s) for a str of decimal digits with an optional sign
DigitChars == {"0","1","2","3","4","5","6","7","8","9"}

DigitValue(ch) ==
    CASE ch = "0" -> 0 [] ch = "1" -> 1 [] ch = "2" -> 2 [] ch = "3" -> 3
      [] ch = "4" -> 4 [] ch = "5" -> 5 [] ch = "6" -> 6 [] ch = "7" -> 7
      [] ch = "8" -> 8 [] ch = "9" -> 9

IsIntLiteral(s) ==
    LET body == IF Len(s) > 0 /\ s[1] \in {"-", "+"} THEN Tail(s) ELSE s
    IN  /\ s # None
        /\ Len(body) > 0
        /\ \A i \in 1..Len(body) : body[i] \in DigitChars

RECURSIVE DigitsToInt(_, _)
DigitsToInt(s, acc) ==
    IF s = <<>> THEN acc
    ELSE DigitsToInt(Tail(s), acc * 10 + DigitValue(Head(s)))

PyInt(s) ==
    IF s[1] = "-" THEN 0 - DigitsToInt(Tail(s), 0)
    ELSE IF s[1] = "+" THEN DigitsToInt(Tail(s), 0)
    ELSE DigitsToInt(s, 0)

\* Python truthiness of an os.environ.get result: None and "" are false
Falsy(v) == v = None \/ v = <<>>

(***************************************************************************)
(* Inputs.                                                                 *)
(***************************************************************************)
RECURSIVE SeqsUpTo(_, _)
SeqsUpTo(S, n) ==
    IF n = 0 THEN {<<>>}
    ELSE LET shorter == SeqsUpTo(S, n - 1)
         IN  shorter \cup {Append(s, x) : s \in shorter, x \in S}

EnvNames == {"CONFIG_FILE", "PROFILE", "VECTARA_API_KEY",
             "VECTARA_CUSTOMER_ID", "VECTARA_CORPUS_ID"}

Unread == <<"unread">>

ConfigFileValues == {None, <<>>, <<"c">>}
ProfileValues    == {None, <<>>, <<"p">>}
ApiKeyValues     == {None, <<>>, <<"k">>}
CustomerValues   == {None, <<>>, <<"1">>}
CorpusValues     == {None} \cup SeqsUpTo({"4", "8", "-", "k"}, MaxIdLen)

\* the casings of the word "crawler" a crawler type is built around
CrawlerCasings == {<<>>,
                   <<"c","r","a","w","l","e","r">>,
                   <<"C","r","a","w","l","e","r">>,
                   <<"C","R","A","W","L","E","R">>}

TypeNames == {pre \o mid \o suf : pre \in SeqsUpTo({"b", "B"}, MaxPad),
                                   mid \in CrawlerCasings,
                                   suf \in SeqsUpTo({"b"}, MaxPad)}

\* the vectara section of the config document: it may override the endpoint,
\* and it may already hold the three identifiers
IdentityKeys == {"api_key", "customer_id", "corpus_id"}

FileVectaraFull == [api_key     |-> <<"f">>,
                    customer_id |-> <<"9">>,
                    corpus_id   |-> 9,
                    endpoint    |-> <<"e">>]

FileVectara == {[k \in E \cup I |-> FileVectaraFull[k]] :
                    E \in SUBSET {"endpoint"}, I \in {{}, IdentityKeys}}

NoCfg == [loaded |-> FALSE]

(***************************************************************************)
(* State after import of ingest.py, before main() is called.               *)
(***************************************************************************)
BasePath == <<<<Str_app>>>>

NoEnv == [n \in EnvNames |-> Unread]

Init ==
    /\ pc = "idle"
    /\ runs = 0
    /\ sys_path = BasePath
    /\ calls = 0
    /\ env = NoEnv
    /\ document = NoCfg
    /\ cfg = NoCfg
    /\ class_name = None
    /\ module_name = None
    /\ class_ = "unset"
    /\ crawler = <<>>
    /\ reset_corpus_flag = FALSE
    /\ token = FALSE
    /\ response = 0
    /\ events = <<>>
    /\ exc = ""

Goto(p) == pc' = p /\ exc' = exc

\* main() returns: its locals are gone
Return ==
    /\ pc' = "returned"
    /\ exc' = exc
    /\ document' = NoCfg
    /\ cfg' = NoCfg
    /\ crawler' = <<>>

\* an exception leaves main(): its locals are gone
Raise(e) ==
    /\ pc' = "raised"
    /\ exc' = e
    /\ document' = NoCfg
    /\ cfg' = NoCfg
    /\ crawler' = <<>>

Log(e) == events' = Append(events, e)

(***************************************************************************)
(* main(), step 1: the environment and the config document.                *)
(***************************************************************************)
\* main() is called: it reads CONFIG_FILE and PROFILE and logs them
MainStart ==
    /\ pc \in {"idle", "returned", "raised"}
    /\ runs < MaxRuns
    /\ runs' = runs + 1
    /\ \E config_name \in ConfigFileValues, profile_name \in ProfileValues :
          env' = [NoEnv EXCEPT !["CONFIG_FILE"] = config_name,
                               !["PROFILE"] = profile_name]
    /\ events' = <<"info: Starting ingest.py", "info: Config file",
                   "info: Profile name">>
    /\ pc' = "check_config_name"
    /\ exc' = ""
    /\ document' = NoCfg
    /\ cfg' = NoCfg
    /\ class_name' = None
    /\ module_name' = None
    /\ class_' = "unset"
    /\ crawler' = <<>>
    /\ reset_corpus_flag' = FALSE
    /\ token' = FALSE
    /\ response' = 0
    /\ UNCHANGED <<sys_path, calls>>

CheckConfigName ==
    /\ pc = "check_config_name"
    /\ IF Falsy(env["CONFIG_FILE"])
       THEN Log("error: CONFIG_FILE environment variable not set") /\ Return
       ELSE Goto("check_profile_name") /\ UNCHANGED <<events, document, cfg, crawler>>
    /\ UNCHANGED <<runs, sys_path, calls, env, class_name, module_name,
                   class_, reset_corpus_flag, token, response>>

CheckProfileName ==
    /\ pc = "check_profile_name"
    /\ IF Falsy(env["PROFILE"])
       THEN Log("error: PROFILE environment variable not set") /\ Return
       ELSE Goto("load_config") /\ UNCHANGED <<events, document, cfg, crawler>>
    /\ UNCHANGED <<runs, sys_path, calls, env, class_name, module_name,
                   class_, reset_corpus_flag, token, response>>

\* DictConfig(OmegaConf.load(config_name)): the document is read, or the
\* load raises
LoadConfig ==
    /\ pc = "load_config"
    /\ \/ /\ Raise("FileNotFoundError")
          /\ UNCHANGED events
       \/ /\ \E v \in FileVectara, t \in TypeNames :
                cfg' = [loaded   |-> TRUE,
                        vectara  |-> v,
                        crawling |-> [crawler_type |-> t]]
          /\ Log("info: Loaded configuration")
          /\ document' = cfg'
          /\ Goto("merge_env")
          /\ UNCHANGED crawler
    /\ UNCHANGED <<runs, sys_path, calls, env, class_name, module_name,
                   class_, reset_corpus_flag, token, response>>

\* MissingVar without its first check
MissingVar_SkipApiKey(vectara_api_key, vectara_customer_id, vectara_corpus_id) ==
    IF Falsy(vectara_customer_id) THEN "VECTARA_CUSTOMER_ID"
    ELSE IF Falsy(vectara_corpus_id) THEN "VECTARA_CORPUS_ID"
    ELSE ""

\* the first of the three checks of main() that fails, "" if none does
MissingVar(vectara_api_key, vectara_customer_id, vectara_corpus_id) ==
    IF Falsy(vectara_api_key) THEN "VECTARA_API_KEY"
    ELSE IF Falsy(vectara_customer_id) THEN "VECTARA_CUSTOMER_ID"
    ELSE IF Falsy(vectara_corpus_id) THEN "VECTARA_CORPUS_ID"
    ELSE ""

\* the line main() logs for a missing identifier
NotSetMessage(name) ==
    CASE name = "VECTARA_API_KEY" ->
             "error: VECTARA_API_KEY environment variable not set"
      [] name = "VECTARA_CUSTOMER_ID" ->
             "error: VECTARA_CUSTOMER_ID environment variable not set"
      [] name = "VECTARA_CORPUS_ID" ->
             "error: VECTARA_CORPUS_ID environment variable not set"

\* cfg.vectara.k = value
SetKey(section, k, value) ==
    [x \in DOMAIN section \cup {k} |-> IF x = k THEN value ELSE section[x]]

\* SetKey that leaves a key the section already holds
SetDefault(section, k, value) ==
    IF k \in DOMAIN section THEN section ELSE SetKey(section, k, value)

\* Overlay in which the document's own identifiers win
Overlay_KeepDocument(c, vectara_api_key, vectara_customer_id, vectara_corpus_id) ==
    [c EXCEPT !.vectara =
        SetDefault(SetDefault(SetDefault(c.vectara, "api_key", vectara_api_key),
                              "customer_id", vectara_customer_id),
                   "corpus_id", PyInt(vectara_corpus_id))]

\* the three assignments into cfg.vectara
Overlay(c, vectara_api_key, vectara_customer_id, vectara_corpus_id) ==
    [c EXCEPT !.vectara =
        SetKey(SetKey(SetKey(c.vectara, "api_key", vectara_api_key),
                      "customer_id", vectara_customer_id),
               "corpus_id", PyInt(vectara_corpus_id))]

\* the three identifiers are read from the environment, checked and
\* written into cfg
MergeEnv ==
    /\ pc = "merge_env"
    /\ \E k \in ApiKeyValues, c \in CustomerValues, i \in CorpusValues :
          /\ env' = [env EXCEPT !["VECTARA_API_KEY"] = k,
                                !["VECTARA_CUSTOMER_ID"] = c,
                                !["VECTARA_CORPUS_ID"] = i]
          /\ IF MissingVar(k, c, i) # ""
             THEN /\ Log(NotSetMessage(MissingVar(k, c, i)))
                  /\ Return
             ELSE IF ~IsIntLiteral(i)
             THEN /\ Raise("ValueError")
                  /\ UNCHANGED events
             ELSE /\ cfg' = Overlay(cfg, k, c, i)
                  /\ Log("info: Updated configuration with environment variables")
                  /\ Goto("read_settings")
                  /\ UNCHANGED <<document, crawler>>
    /\ UNCHANGED <<runs, sys_path, calls, class_name, module_name,
                   class_, reset_corpus_flag, token, response>>

\* main()'s locals endpoint, customer_id, corpus_id, api_key, crawler_type
Endpoint(c) ==
    IF "endpoint" \in DOMAIN c.vectara THEN c.vectara.endpoint
    ELSE Str_default_endpoint
CustomerId(c)  == c.vectara.customer_id
CorpusId(c)    == c.vectara.corpus_id
ApiKey(c)      == c.vectara.api_key
CrawlerType(c) == c.crawling.crawler_type

\* ReadSettings that goes on to the corpus reset instead of the plugin
ReadSettings_ResetFirst ==
    /\ pc = "read_settings"
    /\ Goto("reset_corpus")
    /\ UNCHANGED <<runs, sys_path, calls, env, document, cfg, class_name,
                   module_name, class_, crawler, reset_corpus_flag, token,
                   response, events>>

\* the locals are read from cfg and logged; api_key[:5] needs a str
ReadSettings ==
    /\ pc = "read_settings"
    /\ IF ApiKey(cfg) = None
       THEN Raise("TypeError") /\ UNCHANGED events
       ELSE /\ events' = events \o <<"info: Endpoint", "info: Customer ID",
                                     "info: Corpus ID", "info: API Key",
                                     "info: Crawler Type">>
            /\ Goto("call_instantiate")
            /\ UNCHANGED <<document, cfg, crawler>>
    /\ UNCHANGED <<runs, sys_path, calls, env, class_name, module_name,
                   class_, reset_corpus_flag, token, response>>

(***************************************************************************)
(* instantiate_crawler(Crawler, 'crawlers', f'{T.capitalize()}Crawler',    *)
(*                     cfg, endpoint, customer_id, corpus_id, api_key)     *)
(***************************************************************************)
\* os.path.abspath(folder_name), the working directory being /app
AbsPath(folder_name) == <<Str_app, folder_name>>

\* sys.path.insert(0, os.path.abspath(folder_name))
PathInsert(path, folder_name) == <<AbsPath(folder_name)>> \o path

\* the class name main() derives from the crawler type
ClassNameOf(crawler_type) == Capitalize(crawler_type) \o Str_Crawler

\* the module name instantiate_crawler derives from the class name
ModuleNameOf(folder_name, cname) ==
    folder_name \o Str_dot \o Lower(SplitFirst(cname, Str_Crawler))
                \o Str__crawler

\* main() calls instantiate_crawler, which first extends sys.path
CallInstantiate ==
    /\ pc = "call_instantiate"
    /\ class_name' = ClassNameOf(CrawlerType(cfg))
    /\ sys_path' = PathInsert(sys_path, Str_crawlers)
    /\ calls' = calls + 1
    /\ Goto("import_module")
    /\ UNCHANGED <<runs, env, document, cfg, module_name, class_, crawler,
                   reset_corpus_flag, token, response, events>>

\* importlib.import_module(module_name): the module is there or not
ImportModule ==
    /\ pc = "import_module"
    /\ module_name' = ModuleNameOf(Str_crawlers, class_name)
    /\ Log("import_module")
    /\ \/ Raise("ModuleNotFoundError")
       \/ Goto("getattr") /\ UNCHANGED <<document, cfg, crawler>>
    /\ UNCHANGED <<runs, sys_path, calls, env, class_name, class_,
                   reset_corpus_flag, token, response>>

\* getattr(module, class_name): no such attribute, a subclass of the base
\* class, or something else
GetAttr ==
    /\ pc = "getattr"
    /\ Log("getattr")
    /\ \/ Raise("AttributeError") /\ UNCHANGED class_
       \/ /\ class_' \in {"subclass", "other"}
          /\ Goto("issubclass")
          /\ UNCHANGED <<document, cfg, crawler>>
    /\ UNCHANGED <<runs, sys_path, calls, env, class_name, module_name,
                   reset_corpus_flag, token, response>>

\* CheckSubclass that lets any class through
CheckSubclass_NoCheck ==
    /\ pc = "issubclass"
    /\ Goto("construct")
    /\ UNCHANGED <<runs, sys_path, calls, env, document, cfg, class_name,
                   module_name, class_, crawler, reset_corpus_flag, token,
                   response, events>>

\* if not issubclass(class_, base_class): raise TypeError
CheckSubclass ==
    /\ pc = "issubclass"
    /\ IF class_ # "subclass"
       THEN Raise("TypeError")
       ELSE Goto("construct") /\ UNCHANGED <<document, cfg, crawler>>
    /\ UNCHANGED <<runs, sys_path, calls, env, class_name, module_name,
                   class_, reset_corpus_flag, token, response, events>>

\* class_(*args, **kwargs): the constructor runs, and returns or raises
Construct ==
    /\ pc = "construct"
    /\ Log("construct")
    /\ \/ Raise("ConstructorError")
       \/ /\ crawler' = <<cfg, Endpoint(cfg), CustomerId(cfg),
                          CorpusId(cfg), ApiKey(cfg)>>
          /\ Goto("instantiated")
          /\ UNCHANGED <<document, cfg>>
    /\ UNCHANGED <<runs, sys_path, calls, env, class_name, module_name,
                   class_, reset_corpus_flag, token, response>>

(***************************************************************************)
(* main(), after the crawler is built.  reset_corpus_flag is a local the   *)
(* operator edits in the source (False as shipped, True "when debugging a  *)
(* crawler"); both settings are runs of the program.                       *)
(***************************************************************************)
\* SetResetFlag with the test of the switch inverted
SetResetFlag_Inverted ==
    /\ pc = "instantiated"
    /\ Log("info: Instantiated")
    /\ \E flag \in BOOLEAN :
          /\ reset_corpus_flag' = flag
          /\ Goto(IF flag THEN "crawl_start" ELSE "reset_corpus")
    /\ UNCHANGED <<runs, sys_path, calls, env, document, cfg, class_name,
                   module_name, class_, crawler, token, response>>

SetResetFlag ==
    /\ pc = "instantiated"
    /\ Log("info: Instantiated")
    /\ \E flag \in BOOLEAN :
          /\ reset_corpus_flag' = flag
          /\ Goto(IF flag THEN "reset_corpus" ELSE "crawl_start")
    /\ UNCHANGED <<runs, sys_path, calls, env, document, cfg, class_name, module_name,
                   class_, crawler, token, response>>

\* reset_corpus is entered and calls get_jwt_token: session.fetch_token
\* yields a token or raises
FetchToken ==
    /\ pc = "reset_corpus"
    /\ events' = events \o <<"info: Resetting corpus", "fetch_token">>
    /\ \/ Raise("OAuthError") /\ UNCHANGED token
       \/ /\ token' = TRUE
          /\ Goto("reset_post")
          /\ UNCHANGED <<document, cfg, crawler>>
    /\ UNCHANGED <<runs, sys_path, calls, env, class_name, module_name,
                   class_, reset_corpus_flag, response>>

\* requests.request("POST", url, ...): a response with some status, or the
\* request raises
ResetStatuses == {200, 401, 500}

ResetPost ==
    /\ pc = "reset_post"
    /\ Log("reset_post")
    /\ \/ Raise("ConnectionError") /\ UNCHANGED response
       \/ /\ response' \in ResetStatuses
          /\ Goto("reset_log")
          /\ UNCHANGED <<document, cfg, crawler>>
    /\ UNCHANGED <<runs, sys_path, calls, env, class_name, module_name,
                   class_, reset_corpus_flag, token>>

\* ResetLog that raises on a status other than 200
ResetLog_RaiseOnError ==
    /\ pc = "reset_log"
    /\ IF response = 200
       THEN /\ Log("info: Reset corpus")
            /\ Goto("sleep")
            /\ UNCHANGED <<document, cfg, crawler>>
       ELSE /\ Log("error: Error resetting corpus")
            /\ Raise("HTTPError")
    /\ UNCHANGED <<runs, sys_path, calls, env, class_name, module_name,
                   class_, reset_corpus_flag, token, response>>

\* the status is logged and reset_corpus returns
ResetLog ==
    /\ pc = "reset_log"
    /\ IF response = 200
       THEN Log("info: Reset corpus")
       ELSE Log("error: Error resetting corpus")
    /\ Goto("sleep")
    /\ UNCHANGED <<runs, sys_path, calls, env, document, cfg, class_name, module_name,
                   class_, crawler, reset_corpus_flag, token, response>>

\* time.sleep(5)
Sleep ==
    /\ pc = "sleep"
    /\ Log("sleep")
    /\ Goto("crawl_start")
    /\ UNCHANGED <<runs, sys_path, calls, env, document, cfg, class_name, module_name,
                   class_, crawler, reset_corpus_flag, token, response>>

CrawlStart ==
    /\ pc = "crawl_start"
    /\ Log("info: Starting crawl")
    /\ Goto("crawl")
    /\ UNCHANGED <<runs, sys_path, calls, env, document, cfg, class_name, module_name,
                   class_, crawler, reset_corpus_flag, token, response>>

\* Crawl that swallows what crawl() raises
Crawl_SwallowError ==
    /\ pc = "crawl"
    /\ \/ events' = Append(events, "crawl")
       \/ events' = events \o <<"crawl", "crawl returned">>
    /\ Goto("finish")
    /\ UNCHANGED <<runs, sys_path, calls, env, document, cfg, class_name,
                   module_name, class_, crawler, reset_corpus_flag, token,
                   response>>

\* crawler.crawl(): it returns or raises
Crawl ==
    /\ pc = "crawl"
    /\ \/ /\ events' = Append(events, "crawl")
          /\ Raise("CrawlError")
       \/ /\ events' = events \o <<"crawl", "crawl returned">>
          /\ Goto("finish")
          /\ UNCHANGED <<document, cfg, crawler>>
    /\ UNCHANGED <<runs, sys_path, calls, env, class_name, module_name,
                   class_, reset_corpus_flag, token, response>>

Finish ==
    /\ pc = "finish"
    /\ Log("info: Finished crawl")
    /\ Return
    /\ UNCHANGED <<runs, sys_path, calls, env, class_name, module_name,
                   class_, reset_corpus_flag, token, response>>

Next ==
    \/ MainStart
    \/ CheckConfigName
    \/ CheckProfileName
    \/ LoadConfig
    \/ MergeEnv
    \/ ReadSettings
    \/ CallInstantiate
    \/ ImportModule
    \/ GetAttr
    \/ CheckSubclass
    \/ Construct
    \/ SetResetFlag
    \/ FetchToken
    \/ ResetPost
    \/ ResetLog
    \/ Sleep
    \/ CrawlStart
    \/ Crawl
    \/ Finish

Spec == Init /\ [][Next]_vars

(***************************************************************************)
(* Reading the record of a run.                                            *)
(***************************************************************************)
Positions(e) == {i \in 1..Len(events) : events[i] = e}
Count(e)     == Cardinality(Positions(e))
Has(e)       == Positions(e) # {}
\* e happened, and every f happened after the last e
Precedes(e, f) ==
    /\ Has(e)
    /\ \A i \in Positions(e), j \in Positions(f) : i < j

Terminated == pc \in {"returned", "raised"}

StartMarker  == "info: Starting crawl"
FinishMarker == "info: Finished crawl"

\* the lines main() and reset_corpus log at level ERROR
ErrorLines == {"error: CONFIG_FILE environment variable not set",
               "error: PROFILE environment variable not set",
               "error: VECTARA_API_KEY environment variable not set",
               "error: VECTARA_CUSTOMER_ID environment variable not set",
               "error: VECTARA_CORPUS_ID environment variable not set",
               "error: Error resetting corpus"}

\* a required environment variable was read and found absent or empty
SomeVarMissing == \E n \in EnvNames : Falsy(env[n])

\* the decimal value of a signed digit string, from its last digit up
RECURSIVE Magnitude(_)
Magnitude(s) ==
    IF s = <<>> THEN 0
    ELSE DigitValue(s[Len(s)]) + 10 * Magnitude(SubSeq(s, 1, Len(s) - 1))

DecimalValue(s) ==
    IF s[1] = "-" THEN 0 - Magnitude(Tail(s))
    ELSE IF s[1] = "+" THEN Magnitude(Tail(s))
    ELSE Magnitude(s)

(***************************************************************************)
(* C1: a run of main() in which a required environment variable is absent  *)
(* or empty performs no token fetch, no reset POST, no plugin              *)
(* instantiation and no crawl() call.                                      *)
(***************************************************************************)
C1_MissingVarNoCalls ==
    SomeVarMissing =>
        /\ Count("fetch_token") = 0
        /\ Count("reset_post") = 0
        /\ Count("construct") = 0
        /\ Count("crawl") = 0
        /\ crawler = <<>>

C1_Witness ==
    /\ pc = "returned"
    /\ ~Falsy(env["VECTARA_API_KEY"])
    /\ ~Falsy(env["VECTARA_CUSTOMER_ID"])
    /\ env["VECTARA_CORPUS_ID"] = None
    /\ Has("error: VECTARA_CORPUS_ID environment variable not set")

(***************************************************************************)
(* C2: every step-1 configuration failure (a required environment variable *)
(* missing, or a config file that cannot be loaded) is logged and ends the *)
(* run by a clean return: no exception escapes main().                     *)
(***************************************************************************)
\* the run ended at OmegaConf.load: both names were set, nothing was loaded
ConfigLoadFailed ==
    /\ Terminated
    /\ ~Falsy(env["CONFIG_FILE"])
    /\ ~Falsy(env["PROFILE"])
    /\ ~Has("info: Loaded configuration")

C2_ConfigFailureReturnsCleanly ==
    (Terminated /\ (SomeVarMissing \/ ConfigLoadFailed)) =>
        /\ pc = "returned"
        /\ exc = ""
        /\ \E i \in 1..Len(events) : events[i] \in ErrorLines

(***************************************************************************)
(* C3: the account id, collection id and API key the plugin constructor    *)
(* receives are the environment's, whatever the config document holds, and *)
(* the collection id is the integer the environment string denotes.        *)
(***************************************************************************)
C3_EnvOverridesDocument ==
    crawler # <<>> =>
        /\ crawler[3] = env["VECTARA_CUSTOMER_ID"]
        /\ crawler[4] = DecimalValue(env["VECTARA_CORPUS_ID"])
        /\ crawler[5] = env["VECTARA_API_KEY"]
        /\ env["VECTARA_CORPUS_ID"] = <<"4", "8">> => crawler[4] = 48
        /\ env["VECTARA_CORPUS_ID"] = <<"-", "8">> => crawler[4] = 0 - 8
        /\ crawler[1].vectara.customer_id = crawler[3]
        /\ crawler[1].vectara.corpus_id = crawler[4]
        /\ crawler[1].vectara.api_key = crawler[5]
        /\ \A k \in IdentityKeys \cap DOMAIN document.vectara :
              crawler[1].vectara[k] # document.vectara[k]

C3_Witness ==
    /\ crawler # <<>>
    /\ IdentityKeys \subseteq DOMAIN document.vectara
    /\ document.vectara.corpus_id = 9
    /\ env["VECTARA_CORPUS_ID"] = <<"4", "8">>
    /\ crawler[4] = 48

(***************************************************************************)
(* C4: for every crawler type T, the module imported is                    *)
(* crawlers.<lower(T)>_crawler and the class looked up is                  *)
(* <Capitalize(T)>Crawler, also when T contains or is the word "crawler".  *)
(***************************************************************************)
C4_NamesDerivedFromType ==
    (cfg.loaded /\ module_name # None) =>
        /\ class_name = Capitalize(CrawlerType(cfg)) \o Str_Crawler
        /\ module_name = Str_crawlers \o Str_dot \o Lower(CrawlerType(cfg))
                                      \o Str__crawler

(***************************************************************************)
(* C5: when instantiate_crawler fails (no module, no attribute, or a class *)
(* that is not a subclass of the base class) it raises, and the class      *)
(* constructor is never called: no crawler instance exists.                *)
(***************************************************************************)
C5_FailedResolutionBuildsNothing ==
    /\ (pc = "raised" /\ events[Len(events)] = "import_module") =>
            /\ exc = "ModuleNotFoundError"
            /\ ~Has("construct") /\ crawler = <<>>
    /\ (pc = "raised" /\ events[Len(events)] = "getattr") =>
            /\ exc \in {"AttributeError", "TypeError"}
            /\ exc = "TypeError" <=> class_ = "other"
            /\ ~Has("construct") /\ crawler = <<>>
    /\ class_ = "other" =>
            /\ pc \in {"issubclass", "raised"}
            /\ ~Has("construct") /\ crawler = <<>>

C5_Witness ==
    /\ pc = "raised"
    /\ exc = "TypeError"
    /\ class_ = "other"
    /\ ~Has("construct")

(***************************************************************************)
(* C6: with the reset switch off no token is fetched and no reset POST is  *)
(* sent; with it on there is at most one token fetch, one reset POST and   *)
(* one settle wait, in that order, and a crawl() call comes after exactly  *)
(* one of each.                                                            *)
(***************************************************************************)
C6_ResetSequence ==
    /\ ~reset_corpus_flag =>
            /\ Count("fetch_token") = 0
            /\ Count("reset_post") = 0
            /\ Count("sleep") = 0
    /\ Count("fetch_token") <= 1
    /\ Count("reset_post") <= 1
    /\ Count("sleep") <= 1
    /\ Has("reset_post") => Precedes("fetch_token", "reset_post")
    /\ Has("sleep") => Precedes("reset_post", "sleep")
    /\ (reset_corpus_flag /\ Has("crawl")) =>
            /\ Count("fetch_token") = 1
            /\ Count("reset_post") = 1
            /\ Count("sleep") = 1
            /\ Precedes("fetch_token", "reset_post")
            /\ Precedes("reset_post", "sleep")
            /\ Precedes("sleep", "crawl")

C6_Witness ==
    /\ reset_corpus_flag
    /\ Has("crawl")
    /\ Count("fetch_token") = 1
    /\ Count("reset_post") = 1

(***************************************************************************)
(* C7: once the reset POST has been answered, with whatever status,        *)
(* reset_corpus returns without raising: a status other than 200 is logged *)
(* as an error, and the run goes on to the settle wait and to crawl().     *)
(***************************************************************************)
C7_ResetStatusNeverRaises ==
    response # 0 =>
        /\ pc \in {"reset_log", "sleep", "crawl_start", "crawl", "finish",
                   "returned", "raised"}
        /\ pc = "raised" => (exc = "CrawlError" /\ Has("crawl"))
        /\ pc # "reset_log" =>
              /\ response = 200 <=> Has("info: Reset corpus")
              /\ response # 200 <=> Has("error: Error resetting corpus")
        /\ pc \notin {"reset_log", "sleep"} => Has("sleep")
        /\ pc \in {"finish", "returned", "raised"} =>
              Precedes("sleep", "crawl")

C7_Witness ==
    /\ response = 500
    /\ Has("error: Error resetting corpus")
    /\ Precedes("sleep", "crawl")

(***************************************************************************)
(* C8: once the plugin is instantiated, crawl() is called at most once,    *)
(* right after the start marker; a run that gets past the optional reset   *)
(* (always, with the switch off as shipped) calls it exactly once; the     *)
(* finish marker is logged only after crawl() returned, and when crawl()   *)
(* raises the error leaves main() with no finish marker.                   *)
(***************************************************************************)
C8_CrawlOnceBracketed ==
    /\ Count("crawl") <= 1
    /\ \A i \in Positions("crawl") : i > 1 /\ events[i - 1] = StartMarker
    /\ Has(FinishMarker) =>
            /\ Precedes("crawl returned", FinishMarker)
            /\ Precedes("crawl", "crawl returned")
            /\ Count(FinishMarker) = 1
    /\ (Terminated /\ Has("info: Instantiated")
                   /\ (~reset_corpus_flag \/ response # 0)) =>
            Count("crawl") = 1
    /\ (pc = "returned" /\ Has("info: Instantiated")) =>
            /\ Has("crawl returned")
            /\ events[Len(events)] = FinishMarker
    /\ (Terminated /\ Has("crawl") /\ ~Has("crawl returned")) =>
            /\ pc = "raised"
            /\ exc = "CrawlError"
            /\ ~Has(FinishMarker)

C8_Witness ==
    /\ pc = "raised"
    /\ exc = "CrawlError"
    /\ Count("crawl") = 1
    /\ ~Has(FinishMarker)

(***************************************************************************)
(* C9: after any number n >= 1 of calls of instantiate_crawler with the    *)
(* same search location, sys.path is what it was after the first call.     *)
(***************************************************************************)
C9_PathInsertIdempotent ==
    calls >= 1 => sys_path = PathInsert(BasePath, Str_crawlers)

(***************************************************************************)
(* C10: no token fetch, reset POST or crawl() call happens before the      *)
(* crawler has been instantiated; a run whose plugin resolution fails      *)
(* performs none of them.                                                  *)
(***************************************************************************)
C10_NothingBeforeInstantiation ==
    /\ \A e \in {"fetch_token", "reset_post", "sleep", "crawl"} :
          Has(e) => /\ Precedes("construct", e)
                    /\ Precedes("info: Instantiated", e)
    /\ (pc = "raised" /\ ~Has("info: Instantiated")) =>
          \A e \in {"fetch_token", "reset_post", "sleep", "crawl"} : ~Has(e)

C10_Witness ==
    /\ pc = "raised"
    /\ exc = "AttributeError"
    /\ ~Has("fetch_token")
    /\ ~Has("crawl")

====
